---- MODULE Spec2Model ----
(***************************************************************************)
(* A model of the wearable pedometer host program:                         *)
(*   src/my_wearable/pedometer.py   class Pedometer (sample buffer, file   *)
(*                                  round trip, filter pipeline, steps)    *)
(*   src/my_wearable/ble.py         class BLE (HM-10 serial link protocol) *)
(*                                                                         *)
(* Text is modelled as sequences of one-character strings, so that         *)
(* formatting and parsing are real conversions.  Floating-point series of  *)
(* the filter pipeline are modelled in fixed point (a value x is stored as *)
(* the integer nearest to x * Scale).                                      *)
(***************************************************************************)
EXTENDS Integers, Sequences, FiniteSets, TLC

(***************************************************************************)
(* Bounds of the model.                                                    *)
(***************************************************************************)
\* largest capacity handed to the constructor
MaxCap == 2
\* appends are explored while the timestamp sequence is shorter than this
MaxBuf == 2
\* process() is explored while the step counter is below this
MaxSteps == 2

(***************************************************************************)
(* Python text: str.split, str.rstrip, str.strip, int(), "{}".format       *)
(***************************************************************************)
DigitChars == <<"0", "1", "2", "3", "4", "5", "6", "7", "8", "9">>

Digits == {DigitChars[k] : k \in 1..10}

Whitespace == {" ", "\n", "\t", "\r"}

DigitVal(c) == (CHOOSE k \in 1..10 : DigitChars[k] = c) - 1

RECURSIVE NatToStr(_)
NatToStr(n) ==
    IF n < 10 THEN <<DigitChars[n + 1]>>
    ELSE NatToStr(n \div 10) \o <<DigitChars[(n % 10) + 1]>>

\* a formatter that loses the sign
IntToStrUnsigned(n) == IF n < 0 THEN NatToStr(-n) ELSE NatToStr(n)

\* "{}".format(n) for a Python int
IntToStr(n) == IF n < 0 THEN <<"-">> \o NatToStr(-n) ELSE NatToStr(n)

RECURSIVE StrToNat(_)
StrToNat(s) ==
    IF Len(s) = 0 THEN 0
    ELSE 10 * StrToNat(SubSeq(s, 1, Len(s) - 1)) + DigitVal(s[Len(s)])

RECURSIVE RStrip(_)
RStrip(s) ==
    IF Len(s) > 0 /\ s[Len(s)] \in Whitespace
    THEN RStrip(SubSeq(s, 1, Len(s) - 1))
    ELSE s

RECURSIVE LStrip(_)
LStrip(s) ==
    IF Len(s) > 0 /\ s[1] \in Whitespace THEN LStrip(Tail(s)) ELSE s

Strip(s) == LStrip(RStrip(s))

\* s.split(sep): always at least one field
RECURSIVE Split(_, _)
Split(s, sep) ==
    IF \A k \in 1..Len(s) : s[k] # sep THEN <<s>>
    ELSE LET p == CHOOSE k \in 1..Len(s) :
                      s[k] = sep /\ \A j \in 1..(k - 1) : s[j] # sep
         IN  <<SubSeq(s, 1, p - 1)>> \o Split(SubSeq(s, p + 1, Len(s)), sep)

\* int(s): surrounding whitespace is ignored, one optional sign, then one or
\* more decimal digits; anything else raises ValueError.
IntBody(s) ==
    LET t == Strip(s)
    IN  IF Len(t) > 0 /\ t[1] \in {"-", "+"} THEN Tail(t) ELSE t

IntOk(s) ==
    LET b == IntBody(s) IN Len(b) > 0 /\ \A k \in 1..Len(b) : b[k] \in Digits

IntVal(s) ==
    LET t == Strip(s)
    IN  IF t[1] = "-" THEN -StrToNat(IntBody(s)) ELSE StrToNat(IntBody(s))

(***************************************************************************)
(* Numeric series.  A float is stored as round(x * Scale).                 *)
(***************************************************************************)
Scale == 10 * 10 * 10

\* a / b rounded to the nearest integer (b > 0), symmetric about zero
Round(a, b) ==
    IF a >= 0 THEN (2 * a + b) \div (2 * b)
    ELSE -((2 * (-a) + b) \div (2 * b))

RECURSIVE SumSeq(_)
SumSeq(s) == IF Len(s) = 0 THEN 0 ELSE Head(s) + SumSeq(Tail(s))

\* np.asarray(list of ints) as a float series
ToFloats(v) == [k \in 1..Len(v) |-> v[k] * Scale]

\* "{}".format(x) for a float: digits, a point, digits
FloatToStr(x) ==
    LET a == IF x < 0 THEN -x ELSE x
        frac == a % Scale
    IN  (IF x < 0 THEN <<"-">> ELSE <<>>)
        \o NatToStr(a \div Scale) \o <<".">>
        \o NatToStr((frac \div 100) % 10) \o NatToStr((frac \div 10) % 10)
        \o NatToStr(frac % 10)

\* scipy.signal.detrend(x): subtract the least-squares line through
\* (0, x[0]) .. (n-1, x[n-1]); a single point is fitted exactly.
Detrend(x) ==
    LET n   == Len(x)
        Sx  == SumSeq([k \in 1..n |-> k - 1])
        Sxx == SumSeq([k \in 1..n |-> (k - 1) * (k - 1)])
        Sy  == SumSeq(x)
        Sxy == SumSeq([k \in 1..n |-> (k - 1) * x[k]])
        D   == n * Sxx - Sx * Sx
        N   == n * Sxy - Sx * Sy
    IN  IF n = 1 THEN <<0>>
        ELSE [k \in 1..n |->
                Round(n * D * x[k] - D * Sy + N * Sx - n * N * (k - 1), n * D)]

\* scipy.signal.lfilter(boxcar(N+1)/(N+1), 1, x): causal moving average
\* over N+1 taps, zero initial conditions
Smoothing(x, N) ==
    [k \in 1..Len(x) |->
        Round(SumSeq([j \in 1..(N + 1) |-> IF k - j + 1 >= 1 THEN x[k - j + 1] ELSE 0]),
              N + 1)]

\* np.gradient(x): central differences inside, one-sided at both ends
\* (defined for two or more points)
Gradient(x) ==
    LET n == Len(x)
    IN  [k \in 1..n |->
            IF k = 1 THEN x[2] - x[1]
            ELSE IF k = n THEN x[n] - x[n - 1]
            ELSE Round(x[k + 1] - x[k - 1], 2)]

\* sig.butter(3, 5 / (0.5 * 50), btype='low'): coefficients times CoefScale
CoefScale == 10 * 10 * 10

ButterB == <<18, 54, 54, 18>>

ButterA == <<1000, -1760, 1183, -278>>

\* sig.lfilter(b, a, x): direct-form IIR, zero initial conditions
RECURSIVE LFilter(_, _, _, _)
LFilter(b, a, x, y) ==
    IF Len(y) = Len(x) THEN y
    ELSE LET n   == Len(y) + 1
             ff  == SumSeq([k \in 1..Len(b) |->
                               IF n - k + 1 >= 1 THEN b[k] * x[n - k + 1] ELSE 0])
             fb  == SumSeq([k \in 1..(Len(a) - 1) |->
                               IF n - k >= 1 THEN a[k + 1] * y[n - k] ELSE 0])
         IN  LFilter(b, a, x, Append(y, Round(ff - fb, a[1])))

Lowpass(x) == LFilter(ButterB, ButterA, x, <<>>)

\* Pedometer.__filter_pedometer on a float series of two or more points
FilterPedometer(x) == Lowpass(Gradient(Smoothing(Detrend(x), 4)))

\* scipy.signal.find_peaks(x)[0]: indices (from 0) of the local maxima; a
\* flat top counts once, at its middle
RECURSIVE PlateauEnd(_, _, _)
PlateauEnd(x, i, ia) ==
    IF ia < Len(x) - 1 /\ x[ia + 1] = x[i + 1] THEN PlateauEnd(x, i, ia + 1)
    ELSE ia

RECURSIVE ScanPeaks(_, _)
ScanPeaks(x, i) ==
    IF i >= Len(x) - 1 THEN <<>>
    ELSE IF x[i] < x[i + 1]
         THEN LET ia == PlateauEnd(x, i, i + 1)
              IN  IF x[ia + 1] < x[i + 1]
                  THEN <<(i + ia - 1) \div 2>> \o ScanPeaks(x, ia + 1)
                  ELSE ScanPeaks(x, i + 1)
         ELSE ScanPeaks(x, i + 1)

FindPeaks(x) == ScanPeaks(x, 1)

(***************************************************************************)
(* State.                                                                  *)
(***************************************************************************)
VARIABLES
    cls,        \* class attributes Pedometer.__time_buffer / __data_buffer:
                \* the two list objects every instance sees until it assigns
                \* an attribute of its own
    ped,        \* the Pedometer instances: their own attributes
    files,      \* the file system: name -> [exists, text]
    stdout,     \* the diagnostic printed by the last Pedometer call
    exc,        \* the exception the last call raised, or NoExc
    ret,        \* what the last call returned
    call,       \* the last call made: [op, i, arg]
    ser,        \* the serial port self._ser: [open, fault]
    rx,         \* the characters waiting in the port's input buffer
    mac,        \* self._peripheral_mac
    stack,      \* the BLE methods being executed, innermost last
    rv,         \* the value the method that just returned hands its caller
    done,       \* how the last outermost BLE call ended: [status, exc, detail]
    emitted,    \* what the peripheral has sent so far: [count, confirm]
    obs,        \* what the outermost BLE call has read so far:
                \* [fn, max_tries, reads, firstHash, lost, connects, stop]
    gs          \* get_samples: [pc, i, msg, closed, late]

pedVars == <<cls, ped, files, stdout, exc, ret, call, gs>>

bleVars == <<ser, rx, mac, stack, rv, done, emitted, obs>>

None == "None"

NoExc == "no exception"

NoOutput == "no output"

BufferFull == "The buffer is full"

InvalidData == "Received invalid data"

Instances == {1, 2}

\* the file process() reads; save_file and load_file are given the same path
WalkingFile == "objective1/walking_50hz.txt"

FileNames == {WalkingFile}

Str12 == <<"1", "2">>

\* messages handed to append: a well-formed one and malformed ones
ValidMsgs == { <<"-", "3", ",", "1", "0">> }

MalformedMsgs ==
    { Str12,                                  \* "12"
      <<"1", "2", ",", "a", "b", "c">>,       \* "12,abc"
      <<"a", "b", "c", ",", "7">>,            \* "abc,7"
      <<>>,                                   \* ""
      <<"-", "3", ",", "1", "0", ",", "3">> } \* "-3,10,3"

Msgs == ValidMsgs \cup MalformedMsgs

\* True of the messages that are exactly two comma-separated integer fields
WellFormed(msg) ==
    LET f == Split(msg, ",") IN Len(f) = 2 /\ IntOk(f[1]) /\ IntOk(f[2])

\* one line of the persisted format
FileLine(t, v) == t \o <<",">> \o v \o <<"\n">>

\* a recording with one local maximum after filtering
PeakText ==
    FileLine(<<"0">>, <<"0">>) \o FileLine(<<"1">>, <<"1", "0">>)
    \o FileLine(<<"2">>, <<"0">>) \o FileLine(<<"3">>, <<"2", "0">>)

\* a file whose second line has one field only
ShortLineText == FileLine(Str12, <<"7">>) \o <<"3", "\n">>

\* a file whose only line has three fields: "1,2,3"
ExtraFieldText == FileLine(<<"1">>, <<"2", ",", "3">>)

\* a file with a blank line after a sample
BlankLineText == FileLine(Str12, <<"7">>) \o <<"\n">>

\* a file whose value field is not an integer: "12,abc"
NonIntegerText == FileLine(Str12, <<"a", "b", "c">>)

\* a file with two samples and then a line with one field only
LongShortLineText == FileLine(Str12, <<"7">>) \o ShortLineText

NoFile == [exists |-> FALSE, text |-> <<>>]

TextFile(t) == [exists |-> TRUE, text |-> t]

\* what the walking file may hold when the program starts
InitWalking == {NoFile, TextFile(PeakText), TextFile(ShortLineText)}

\* files a caller may hand to load_file
LoadTexts ==
    {PeakText, ShortLineText, LongShortLineText, ExtraFieldText, BlankLineText,
     NonIntegerText}

\* the lines file.readline() returns for text, each with its line end
RECURSIVE FileLines(_)
FileLines(text) ==
    IF Len(text) = 0 THEN <<>>
    ELSE LET p == IF \E k \in 1..Len(text) : text[k] = "\n"
                  THEN CHOOSE k \in 1..Len(text) :
                          text[k] = "\n" /\ \A j \in 1..(k - 1) : text[j] # "\n"
                  ELSE Len(text)
         IN  <<SubSeq(text, 1, p)>> \o FileLines(SubSeq(text, p + 1, Len(text)))

\* True of the texts in which every line is exactly two integer fields
AllLinesWellFormed(text) ==
    \A k \in 1..Len(FileLines(text)) : WellFormed(RStrip(FileLines(text)[k]))

(***************************************************************************)
(* Pedometer: attribute lookup.  self.__x reads the instance attribute if  *)
(* the instance has one, else the class attribute.                         *)
(***************************************************************************)
\* Pedometer.__init__ (and the class body's defaults for __steps, __peaks)
NewPedometer(maxlen) ==
    [ maxlen      |-> maxlen,
      own         |-> {},
      time_buffer |-> <<>>,
      data_buffer |-> <<>>,
      data_kind   |-> "list",
      steps       |-> 0,
      peaks       |-> <<>> ]

TimeBuf(i) ==
    IF "time" \in ped[i].own THEN ped[i].time_buffer ELSE cls.time_buffer

DataBuf(i) ==
    IF "data" \in ped[i].own THEN ped[i].data_buffer ELSE cls.data_buffer

\* list (of ints) or ndarray (of floats)
DataKind(i) == IF "data" \in ped[i].own THEN ped[i].data_kind ELSE "list"

(***************************************************************************)
(* Pedometer operations.                                                   *)
(***************************************************************************)
\* a Pedometer method is called; the BLE object is not involved
Called(op, i, arg) ==
    /\ call' = [op |-> op, i |-> i, arg |-> arg]
    /\ UNCHANGED gs
    /\ UNCHANGED bleVars

\* The buffers after a call, written back to where the instance found them
WriteBack(i, time, data) ==
    /\ ped' = [ped EXCEPT
                 ![i].time_buffer = IF "time" \in ped[i].own THEN time ELSE @,
                 ![i].data_buffer = IF "data" \in ped[i].own THEN data ELSE @]
    /\ cls' = [time_buffer |-> IF "time" \in ped[i].own THEN cls.time_buffer ELSE time,
               data_buffer |-> IF "data" \in ped[i].own THEN cls.data_buffer ELSE data]

\* p = Pedometer(maxlen, file_flag)
construct(i, maxlen) ==
    /\ ped' = [ped EXCEPT ![i] = NewPedometer(maxlen)]
    /\ Called("construct", i, maxlen)
    /\ stdout' = NoOutput
    /\ exc' = NoExc
    /\ ret' = None
    /\ UNCHANGED <<cls, files>>

\* Pedometer.reset: both buffers become fresh lists of the instance; the
\* assignment "__steps = 0" binds a local name and leaves self.__steps alone
reset(i) ==
    /\ ped' = [ped EXCEPT ![i].own = @ \cup {"time", "data"},
                          ![i].time_buffer = <<>>,
                          ![i].data_buffer = <<>>,
                          ![i].data_kind = "list"]
    /\ Called("reset", i, None)
    /\ stdout' = NoOutput
    /\ exc' = NoExc
    /\ ret' = None
    /\ UNCHANGED <<cls, files>>

\* a capacity test that is off by one
IsFullOffByOne(time, data, maxlen) == Len(time) > maxlen \/ Len(data) > maxlen

\* the test at the head of Pedometer.append
IsFull(time, data, maxlen) == Len(time) = maxlen \/ Len(data) = maxlen

\* Pedometer.append on buffers (time, data): the buffers and the diagnostic
\* after the call.  Every exception of the try block is swallowed.
AppendCall(time, data, kind, maxlen, msg) ==
    LET received == Split(msg, ",")
        invalid(t) == [time |-> t, data |-> data, out |-> InvalidData]
    IN  IF IsFull(time, data, maxlen)
        THEN [time |-> time, data |-> data, out |-> BufferFull]
        ELSE IF ~IntOk(received[1]) THEN invalid(time)
        ELSE LET t1 == Append(time, IntVal(received[1]))
             IN  IF Len(received) < 2 THEN invalid(t1)
                 ELSE IF kind = "ndarray" THEN invalid(t1)
                 ELSE IF ~IntOk(received[2]) THEN invalid(t1)
                 ELSE [time |-> t1,
                       data |-> Append(data, IntVal(received[2])),
                       out  |-> NoOutput]

append(i, msg) ==
    LET r == AppendCall(TimeBuf(i), DataBuf(i), DataKind(i), ped[i].maxlen, msg)
    IN  /\ Len(TimeBuf(i)) < MaxBuf \/ IsFull(TimeBuf(i), DataBuf(i), ped[i].maxlen)
        /\ WriteBack(i, r.time, r.data)
        /\ Called("append", i, msg)
        /\ stdout' = r.out
        /\ exc' = NoExc
        /\ ret' = None
        /\ UNCHANGED files

\* "{}".format of one element of the data buffer
FormatValue(kind, v) == IF kind = "ndarray" THEN FloatToStr(v) ELSE IntToStr(v)

\* the lines save_file writes for samples k..: it stops at the first index
\* the data buffer does not have
RECURSIVE SaveLines(_, _, _, _)
SaveLines(time, data, kind, k) ==
    IF k > Len(time) \/ k > Len(data) THEN <<>>
    ELSE FileLine(IntToStr(time[k]), FormatValue(kind, data[k]))
         \o SaveLines(time, data, kind, k + 1)

\* Pedometer.save_file: the file is truncated, then written line by line
save_file(i, f) ==
    /\ files' = [files EXCEPT
                   ![f] = TextFile(SaveLines(TimeBuf(i), DataBuf(i), DataKind(i), 1))]
    /\ exc' = IF Len(DataBuf(i)) < Len(TimeBuf(i)) THEN "IndexError" ELSE NoExc
    /\ Called("save_file", i, f)
    /\ stdout' = NoOutput
    /\ ret' = None
    /\ UNCHANGED <<cls, ped>>

\* file.readline(): up to and including the first newline
FirstLine(text) ==
    IF \E k \in 1..Len(text) : text[k] = "\n"
    THEN SubSeq(text, 1, CHOOSE k \in 1..Len(text) :
                            text[k] = "\n" /\ \A j \in 1..(k - 1) : text[j] # "\n")
    ELSE text

\* the loop of Pedometer.load_file over the rest of the file
RECURSIVE LoadLines(_, _, _, _)
LoadLines(text, time, data, count) ==
    IF Len(text) = 0
    THEN [time |-> time, data |-> data, count |-> count, exc |-> NoExc]
    ELSE LET line == FirstLine(text)
             rest == SubSeq(text, Len(line) + 1, Len(text))
             vals == Split(RStrip(line), ",")
             stop(t, e) == [time |-> t, data |-> data, count |-> count, exc |-> e]
         IN  IF ~IntOk(vals[1]) THEN stop(time, "ValueError")
             ELSE LET t1 == Append(time, IntVal(vals[1]))
                  IN  IF Len(vals) < 2 THEN stop(t1, "IndexError")
                      ELSE IF ~IntOk(vals[2]) THEN stop(t1, "ValueError")
                      ELSE LoadLines(rest, t1, Append(data, IntVal(vals[2])),
                                     count + 1)

\* Pedometer.load_file on file f: the instance after the call and the
\* exception raised.  _maxlen is set only when the whole file was read.
LoadCall(p, f) ==
    LET r == IF f.exists THEN LoadLines(f.text, <<>>, <<>>, 0)
             ELSE [time |-> <<>>, data |-> <<>>, count |-> 0,
                   exc |-> "FileNotFoundError"]
    IN  [ p   |-> [p EXCEPT !.own = @ \cup {"time", "data"},
                            !.time_buffer = r.time,
                            !.data_buffer = r.data,
                            !.data_kind = "list",
                            !.maxlen = IF r.exc = NoExc THEN r.count ELSE @],
          exc |-> r.exc ]

load_file(i, f) ==
    LET r == LoadCall(ped[i], files[f])
    IN  /\ ped' = [ped EXCEPT ![i] = r.p]
        /\ Called("load_file", i, f)
        /\ exc' = r.exc
        /\ stdout' = NoOutput
        /\ ret' = None
        /\ UNCHANGED <<cls, files>>

\* the bounds Pedometer.__count_steps accepts peak indices between
upper_bound == 4000

lower_bound == -200

\* the length of the placeholder list __find_peaks stores first
PeakSlots == 500

Accepted(peak) == peak < upper_bound /\ peak > lower_bound

\* Pedometer.__count_steps (with __find_peaks and __filter_pedometer) on an
\* instance that owns its buffers: the instance after the call and the
\* exception raised.  detrend rejects an empty series, np.gradient a series
\* of one point; the step counter is added to, never set.
CountStepsCall(p) ==
    LET n  == Len(p.data_buffer)
        x  == IF p.data_kind = "list" THEN ToFloats(p.data_buffer)
              ELSE p.data_buffer
        p0 == [p EXCEPT !.peaks = [k \in 1..PeakSlots |-> None]]
        y  == FilterPedometer(x)
        pk == FindPeaks(y)
    IN  IF n = 0 THEN [p |-> p0, exc |-> "ValueError"]
        ELSE IF n = 1
        THEN [p   |-> [p0 EXCEPT !.data_buffer = Smoothing(Detrend(x), 4),
                                 !.data_kind = "ndarray"],
              exc |-> "ValueError"]
        ELSE [p   |-> [p EXCEPT !.data_buffer = y,
                                !.data_kind = "ndarray",
                                !.peaks = pk,
                                !.steps = @ + Len(SelectSeq(pk, Accepted))],
              exc |-> NoExc]

\* Pedometer.process: load the walking file, count, return self.__steps
ProcessCall(p, f) ==
    LET l == LoadCall(p, f)
        c == CountStepsCall(l.p)
    IN  IF l.exc # NoExc THEN [p |-> l.p, exc |-> l.exc, ret |-> None]
        ELSE [p |-> c.p, exc |-> c.exc,
              ret |-> IF c.exc = NoExc THEN c.p.steps ELSE None]

process(i) ==
    LET r == ProcessCall(ped[i], files[WalkingFile])
    IN  /\ ped[i].steps < MaxSteps
        /\ ped' = [ped EXCEPT ![i] = r.p]
        /\ Called("process", i, None)
        /\ exc' = r.exc
        /\ ret' = r.ret
        /\ stdout' = NoOutput
        /\ UNCHANGED <<cls, files>>

(***************************************************************************)
(* BLE: the serial link to the HM-10.  Methods call each other (connect -> *)
(* read_line -> check_connection -> connect -> ...), so the methods being  *)
(* executed are kept on a stack and run one step at a time; the peripheral *)
(* may send characters between any two steps.                              *)
(***************************************************************************)
\* how many port operations of a connect call are kept in order
OpsKept == 3

\* most chunks the peripheral sends in one run
MaxEmit == 2
\* largest max_tries handed to connect / check_connection by the caller
MaxTries == 2

\* default max_tries of connect and of check_connection
ConnectDefaultTries == 20

CheckDefaultTries == 10

LinkMarker ==
    <<"O", "K", "+", "C", "O", "N", "N", "A", "O", "K", "+", "C", "O", "N", "N">>

LostMarker == <<"O", "K", "+", "L", "O", "S", "T">>

ConfirmMarker == <<"#">>

Newline == <<"\n">>

\* what the peripheral may send in one piece
Chunks == {LinkMarker, LostMarker, ConfirmMarker, Newline}

\* the answer of a module that could not connect: "OK+CONNAOK+CONNF"
LinkFailed == LinkMarker \o <<"F">>

FailMarkers == {<<"C", "O", "N", "N", "F">>, <<"C", "O", "N", "N", "E">>}

\* what the peripheral may send while the caller connects
ConnectChunks == Chunks \cup {LinkFailed}

\* one sample as the peripheral sends it to get_samples: "5,7;"
SampleChunk == <<"5", ",", "7", ";">>

\* what the peripheral may send once the caller reads samples
ReadChunks == Chunks \cup {SampleChunk}

PeripheralMac == "78DB2F141044"

\* messages handed to check_connection by the caller
CheckMsgs == {LostMarker, <<"5", ",", "7">>}

ConnectionFailed == "IOError: Exceed max number of attemps establishing connection"

ReconnectFailed == "IOError: Can't connect to Peripheral"

SerialException == "SerialException"

DelimiterError == "AssertionError: Delimiting character must be a single element string."

\* delimiters a caller may pass to read_line: "\n", ";", "" and ";;"
EolArgs == {Newline, <<";">>, <<>>, <<";", ";">>}

\* sub in s
Contains(s, sub) ==
    \E k \in 0..(Len(s) - Len(sub)) : SubSeq(s, k + 1, k + Len(sub)) = sub

\* reading or writing raises when the port is closed or the device is gone
IOFails(port) == port.fault \/ ~port.open

\* the commands the loop of connect writes: "AT+CON" + address, "AT+NAME?"
ConnectCommand(m) == <<"AT+CON", m>>

NameCommand == <<"AT+NAME?">>

NoCommand == <<>>

ResetCommand == <<"AT">>

\* what a connect call does to the port, in the order it does it
WriteOp(cmd) == <<"write">> \o cmd

FlushOp == <<"flush">>

ReadOp == <<"read_line">>

\* a connect that flushes without sending the reset command
EntryOpsNoReset == <<FlushOp>>

\* self.write("AT"); sleep(0.5); self.flush()
EntryOps == <<WriteOp(ResetCommand), FlushOp>>

\* ops keeps the first OpsKept port operations of a connect call
Record(ops, op) == IF Len(ops) < OpsKept THEN Append(ops, op) ELSE ops

\* wrote is the command written in the latest turn of the loop
ConnectFrame(n) ==
    [fn |-> "connect", pc |-> "loop", max_tries |-> n,
     connected |-> FALSE, confirmed |-> FALSE, tries |-> 0, wrote |-> NoCommand,
     ops |-> EntryOps]

\* eol is kept as text: a character c ends the line when <<c>> = eol
ReadLineFrame(eol) == [fn |-> "read_line", pc |-> "read", eol |-> eol, msg |-> <<>>]

ReadLinesFrame == [fn |-> "read_lines", pc |-> "read", msg |-> <<>>]

CheckFrame(msg, n) ==
    [fn |-> "check_connection", pc |-> "loop", msg |-> msg,
     max_tries |-> n, tries |-> 0]

Running == [status |-> "running", exc |-> NoExc, detail |-> None]

Idle == [status |-> "idle", exc |-> NoExc, detail |-> None]

\* how the caller's own read_line stopped: on the delimiter or on the
\* deadline, with the message line, the waiting characters had before and
\* rest after it, and the delimiter eol it was called with
NoStop == [kind |-> "none", line |-> <<>>, rest |-> <<>>, had |-> <<>>, eol |-> <<>>]

NewObs(fn, n) ==
    [fn |-> fn, max_tries |-> n, reads |-> 0, firstHash |-> 0, lost |-> FALSE,
     connects |-> 0, stop |-> NoStop]

Top == stack[Len(stack)]

Running_(fn, pc) == Len(stack) > 0 /\ Top.fn = fn /\ Top.pc = pc

SetTop(f) == [stack EXCEPT ![Len(stack)] = f]

Pop == SubSeq(stack, 1, Len(stack) - 1)

\* the innermost method returns v: to its caller, or out of the BLE object
Return(v) ==
    /\ stack' = Pop
    /\ IF Len(stack) = 1
       THEN rv' = None /\ done' = [status |-> "returned", exc |-> NoExc, detail |-> v]
       ELSE rv' = v /\ UNCHANGED done

\* an exception: no BLE method handles one, so it leaves every method
Raise(e, detail) ==
    /\ stack' = <<>>
    /\ rv' = None
    /\ done' = [status |-> "raised", exc |-> e, detail |-> detail]

\* The input buffer is looked at only by a read, so what the peripheral
\* sends between two reads is placed just before the later one (or while no
\* method runs, where a flush may still discard it).
AtRead ==
    \/ stack = <<>>
    \/ Running_("read_line", "read")
    \/ Running_("read_lines", "read")

\* the peripheral sends a chunk
emit(c) ==
    /\ emitted.count < MaxEmit
    /\ ser.open
    /\ AtRead
    /\ rx' = rx \o c
    /\ emitted' = [count |-> emitted.count + 1,
                   confirm |-> emitted.confirm \/ Contains(c, ConfirmMarker)]
    /\ UNCHANGED <<ser, mac, stack, rv, done, obs>>
    /\ UNCHANGED pedVars

\* the device goes away: every later read or write raises
fault ==
    /\ ~ser.fault
    /\ AtRead \/ Running_("connect", "await")
    /\ ser' = [ser EXCEPT !.fault = TRUE]
    /\ UNCHANGED <<rx, mac, stack, rv, done, emitted, obs>>
    /\ UNCHANGED pedVars

\* whether _ser.closed reports a port that close() closed: either answer
Reopens == IF ser.open THEN {FALSE} ELSE BOOLEAN

\* BLE.connect down to the loop: store the address, reopen a port reported
\* closed, write "AT", flush; frames is the stack below the new call
ConnectEntry(m, n, reopen, frames) ==
    LET port == IF reopen THEN [ser EXCEPT !.open = TRUE] ELSE ser
    IN  /\ mac' = m
        /\ ser' = port
        /\ IF IOFails(port)
           THEN Raise(SerialException, None) /\ rx' = rx
           ELSE /\ stack' = Append(frames, ConnectFrame(n))
                /\ rx' = <<>>
                /\ rv' = None
                /\ done' = Running

\* the caller calls connect(address, max_tries)
start_connect(m, n, reopen) ==
    /\ stack = <<>>
    /\ ConnectEntry(m, n, reopen, <<>>)
    /\ obs' = NewObs("connect", n)
    /\ UNCHANGED emitted
    /\ UNCHANGED pedVars

\* the loop test of BLE.connect
ConnectContinues(f) == ~f.confirmed /\ f.tries < f.max_tries

\* BLE.connect at the head of its loop: read a line, or leave
connect_loop ==
    /\ Running_("connect", "loop")
    /\ IF ConnectContinues(Top)
       THEN /\ stack' = Append(SetTop([Top EXCEPT !.pc = "await",
                                                  !.ops = Record(@, ReadOp)]),
                               ReadLineFrame(Newline))
            /\ UNCHANGED <<rv, done>>
       ELSE IF ~Top.confirmed THEN Raise(ConnectionFailed, None)
       ELSE Return(None)
    /\ UNCHANGED <<ser, rx, mac, emitted, obs>>
    /\ UNCHANGED pedVars

\* BLE.connect with the response: note the markers, write a command
connect_response ==
    /\ Running_("connect", "await")
    /\ LET response  == rv
           connected == Top.connected \/ Contains(response, LinkMarker)
           confirmed == Top.confirmed \/ Contains(response, ConfirmMarker)
           writes    == ~connected \/ ~confirmed
       IN  IF ~connected /\ mac = None THEN Raise("TypeError", None)
           ELSE IF writes /\ IOFails(ser) THEN Raise(SerialException, None)
           ELSE /\ stack' = SetTop([Top EXCEPT !.pc = "loop",
                                               !.connected = connected,
                                               !.confirmed = confirmed,
                                               !.tries = @ + 1,
                                               !.wrote =
                                                  IF ~connected
                                                  THEN ConnectCommand(mac)
                                                  ELSE IF ~confirmed
                                                  THEN NameCommand
                                                  ELSE NoCommand,
                                               !.ops =
                                                  IF ~connected
                                                  THEN Record(@, WriteOp(ConnectCommand(mac)))
                                                  ELSE IF ~confirmed
                                                  THEN Record(@, WriteOp(NameCommand))
                                                  ELSE @])
                /\ rv' = None
                /\ UNCHANGED done
    /\ UNCHANGED <<ser, rx, mac, emitted, obs>>
    /\ UNCHANGED pedVars

\* a search that finds the last delimiter
LastEol(s, eol) ==
    IF \E k \in 1..Len(s) : <<s[k]>> = eol
    THEN CHOOSE k \in 1..Len(s) :
            <<s[k]>> = eol /\ \A j \in (k + 1)..Len(s) : <<s[j]>> # eol
    ELSE 0

\* the first place of eol in s, 0 if there is none
FirstEol(s, eol) ==
    IF \E k \in 1..Len(s) : <<s[k]>> = eol
    THEN CHOOSE k \in 1..Len(s) :
            <<s[k]>> = eol /\ \A j \in 1..(k - 1) : <<s[j]>> # eol
    ELSE 0

\* BLE.read_line's loop on the waiting characters s: it stops at the
\* delimiter, or with nothing left to read when the time is up, or when the
\* time is up just after character j was read (which is then not added)
ReadLineOutcomes(s, eol) ==
    LET p == FirstEol(s, eol)
        before == IF p = 0 THEN Len(s) ELSE p - 1
    IN  (IF p > 0
         THEN {[msg |-> SubSeq(s, 1, p - 1), rest |-> SubSeq(s, p + 1, Len(s)),
                kind |-> "eol"]}
         ELSE {[msg |-> s, rest |-> <<>>, kind |-> "timeout"]})
        \cup {[msg |-> SubSeq(s, 1, j - 1), rest |-> SubSeq(s, j + 1, Len(s)),
                kind |-> "timeout"] : j \in 1..before}

\* a read that hands its message back without the check
ReturnUnchecked(f, msg) == Return(msg)

\* the message goes through check_connection before it is returned
CheckThenReturn(f, msg) ==
    IF Contains(msg, LostMarker)
    THEN /\ stack' = Append(SetTop([f EXCEPT !.pc = "checked", !.msg = msg]),
                            CheckFrame(msg, CheckDefaultTries))
         /\ UNCHANGED <<rv, done>>
    ELSE Return(msg)

Observe(msg, framed, stop) ==
    obs' = [obs EXCEPT
              !.stop = stop,
              !.reads = IF framed THEN @ + 1 ELSE @,
              !.firstHash = IF framed /\ @ = 0 /\ Contains(msg, ConfirmMarker)
                            THEN obs.reads + 1 ELSE @,
              !.lost = @ \/ Contains(msg, LostMarker)]

\* BLE.read_line: assemble a message, then check the connection
read_line_read ==
    /\ Running_("read_line", "read")
    /\ IF IOFails(ser)
       THEN Raise(SerialException, None) /\ UNCHANGED <<rx, obs>>
       ELSE \E o \in ReadLineOutcomes(rx, Top.eol) :
               /\ rx' = o.rest
               /\ Observe(o.msg, TRUE,
                          IF Len(stack) = 1
                          THEN [kind |-> o.kind, line |-> o.msg, rest |-> o.rest,
                                had |-> rx, eol |-> Top.eol]
                          ELSE obs.stop)
               /\ CheckThenReturn(Top, o.msg)
    /\ UNCHANGED <<ser, mac, emitted>>
    /\ UNCHANGED pedVars

\* BLE.read_lines: drain the input buffer, then check the connection
read_lines_read ==
    /\ Running_("read_lines", "read")
    /\ IF IOFails(ser)
       THEN Raise(SerialException, None) /\ UNCHANGED <<rx, obs>>
       ELSE /\ rx' = <<>>
            /\ Observe(rx, FALSE, obs.stop)
            /\ CheckThenReturn(Top, rx)
    /\ UNCHANGED <<ser, mac, emitted>>
    /\ UNCHANGED pedVars

\* read_line / read_lines after check_connection came back: return msg
read_checked ==
    /\ Len(stack) > 0
    /\ Top.fn \in {"read_line", "read_lines"}
    /\ Top.pc = "checked"
    /\ Return(Top.msg)
    /\ UNCHANGED <<ser, rx, mac, emitted, obs>>
    /\ UNCHANGED pedVars

\* BLE.check_connection at the head of its loop: reconnect, or leave
check_loop(reopen) ==
    /\ Running_("check_connection", "loop")
    /\ IF Contains(Top.msg, LostMarker) /\ Top.tries < Top.max_tries
       THEN /\ ConnectEntry(mac, ConnectDefaultTries, reopen,
                            SetTop([Top EXCEPT !.pc = "connecting"]))
            /\ obs' = [obs EXCEPT !.connects = @ + 1]
       ELSE /\ IF Top.tries >= Top.max_tries
               THEN Raise(ReconnectFailed, Top.msg)
               ELSE Return(None)
            /\ UNCHANGED <<ser, rx, mac, obs>>
    /\ UNCHANGED emitted
    /\ UNCHANGED pedVars

\* BLE.check_connection after connect came back: read the backlog
check_connected ==
    /\ Running_("check_connection", "connecting")
    /\ stack' = Append(SetTop([Top EXCEPT !.pc = "rereading"]), ReadLinesFrame)
    /\ rv' = None
    /\ UNCHANGED <<ser, rx, mac, done, emitted, obs>>
    /\ UNCHANGED pedVars

\* BLE.check_connection with the backlog: one more try is used up
check_reread ==
    /\ Running_("check_connection", "rereading")
    /\ stack' = SetTop([Top EXCEPT !.pc = "loop", !.msg = rv, !.tries = @ + 1])
    /\ rv' = None
    /\ UNCHANGED <<ser, rx, mac, done, emitted, obs>>
    /\ UNCHANGED pedVars

\* a delimiter test that lets every text through
EolAcceptedAlways(eol) == TRUE

\* assert len(eol) == 1
EolAccepted(eol) == Len(eol) = 1

\* the caller calls read_line(eol): the delimiter is tested first
start_read_line(eol) ==
    /\ stack = <<>>
    /\ obs' = [NewObs("read_line", 0) EXCEPT !.stop.eol = eol]
    /\ rv' = None
    /\ IF EolAccepted(eol)
       THEN stack' = <<ReadLineFrame(eol)>> /\ done' = Running
       ELSE /\ stack' = <<>>
            /\ done' = [status |-> "raised", exc |-> DelimiterError, detail |-> None]
    /\ UNCHANGED <<ser, rx, mac, emitted>>
    /\ UNCHANGED pedVars

\* the caller calls read_lines()
start_read_lines ==
    /\ stack = <<>>
    /\ stack' = <<ReadLinesFrame>>
    /\ obs' = NewObs("read_lines", 0)
    /\ done' = Running
    /\ rv' = None
    /\ UNCHANGED <<ser, rx, mac, emitted>>
    /\ UNCHANGED pedVars

\* the caller calls check_connection(msg, max_tries)
start_check_connection(msg, n) ==
    /\ stack = <<>>
    /\ stack' = <<CheckFrame(msg, n)>>
    /\ obs' = NewObs("check_connection", n)
    /\ done' = Running
    /\ rv' = None
    /\ UNCHANGED <<ser, rx, mac, emitted>>
    /\ UNCHANGED pedVars

\* BLE.close: write "AT", flush, close the port; nothing is caught
close ==
    /\ stack = <<>>
    /\ obs' = NewObs("close", 0)
    /\ rv' = None
    /\ IF IOFails(ser)
       THEN /\ done' = [status |-> "raised", exc |-> SerialException, detail |-> None]
            /\ UNCHANGED <<ser, rx>>
       ELSE /\ done' = [status |-> "returned", exc |-> NoExc, detail |-> None]
            /\ ser' = [ser EXCEPT !.open = FALSE]
            /\ rx' = <<>>
    /\ UNCHANGED <<mac, stack, emitted>>
    /\ UNCHANGED pedVars

(***************************************************************************)
(* get_samples(hm10, frequency, pedometer) of main.py.  hm10.read_line is   *)
(* taken by its outcomes: a message, an exception, or the user's interrupt. *)
(***************************************************************************)
LoopCount == 500

Unbound == "unbound"

KeyboardInterrupt == "KeyboardInterrupt"

SamplesFile == "walking_50hz.txt"

\* the messages read_line(eol = ";") may hand to get_samples
SampleMsgs == ValidMsgs \cup {Str12}

NotCalled == [pc |-> "not called", i |-> 0, msg |-> Unbound,
              closed |-> FALSE, late |-> {}]

\* how hm10.read_line(eol = ";") may end on port: reading a closed or lost
\* port raises; otherwise a message comes back, the reconnection fails, or
\* the user interrupts
ReadLineEnds(port) ==
    IF IOFails(port) THEN {[exc |-> SerialException, msg |-> Unbound]}
    ELSE {[exc |-> NoExc, msg |-> m] : m \in SampleMsgs}
         \cup {[exc |-> ReconnectFailed, msg |-> Unbound],
                [exc |-> KeyboardInterrupt, msg |-> Unbound]}

\* hm10.close() called from a handler of get_samples: next is where
\* get_samples goes on when close() returns; an exception of close() leaves
\* get_samples
HandlerClose(next) ==
    /\ IF IOFails(ser)
       THEN /\ gs' = [gs EXCEPT !.pc = "raised", !.closed = TRUE]
            /\ UNCHANGED <<ser, rx>>
       ELSE /\ gs' = [gs EXCEPT !.pc = next, !.closed = TRUE]
            /\ ser' = [ser EXCEPT !.open = FALSE]
            /\ rx' = <<>>

\* the first read_line of get_samples, whose message is thrown away; both
\* handlers close the port and fall through to the loop
gs_first_read ==
    /\ gs.pc = "first"
    /\ \E e \in ReadLineEnds(ser) :
          IF e.exc = NoExc
          THEN gs' = [gs EXCEPT !.pc = "loop", !.msg = e.msg] /\ UNCHANGED <<ser, rx>>
          ELSE HandlerClose("loop")
    /\ UNCHANGED <<cls, ped, files, stdout, exc, ret, call>>
    /\ UNCHANGED <<mac, stack, rv, done, emitted, obs>>

\* one read_line of the loop: the interrupt handler closes and breaks, the
\* other handler closes and goes on to append
gs_loop_read ==
    /\ gs.pc = "loop"
    /\ gs.i < LoopCount
    /\ \E e \in ReadLineEnds(ser) :
          LET late == IF gs.closed THEN gs.late \cup {"read_line"} ELSE gs.late
          IN  IF e.exc = NoExc
              THEN /\ gs' = [gs EXCEPT !.pc = "append", !.msg = e.msg, !.late = late]
                   /\ UNCHANGED <<ser, rx>>
              ELSE IF e.exc = KeyboardInterrupt
              THEN /\ HandlerClose("save")
              ELSE /\ IF IOFails(ser)
                      THEN /\ gs' = [gs EXCEPT !.pc = "raised", !.closed = TRUE,
                                                !.late = late]
                           /\ UNCHANGED <<ser, rx>>
                      ELSE /\ gs' = [gs EXCEPT !.pc = "append", !.closed = TRUE,
                                                !.late = late]
                           /\ ser' = [ser EXCEPT !.open = FALSE]
                           /\ rx' = <<>>
    /\ UNCHANGED <<cls, ped, files, stdout, exc, ret, call>>
    /\ UNCHANGED <<mac, stack, rv, done, emitted, obs>>

\* pedometer.append(msg) at the end of the loop body, with whatever msg is
\* bound to; an unbound msg raises NameError
gs_append ==
    /\ gs.pc = "append"
    /\ IF gs.msg = Unbound
       THEN /\ gs' = [gs EXCEPT !.pc = "raised"]
            /\ UNCHANGED <<cls, ped, stdout, exc, ret, call>>
       ELSE LET r == AppendCall(TimeBuf(1), DataBuf(1), DataKind(1),
                                ped[1].maxlen, gs.msg)
            IN  /\ WriteBack(1, r.time, r.data)
                /\ call' = [op |-> "append", i |-> 1, arg |-> gs.msg]
                /\ stdout' = r.out
                /\ exc' = NoExc
                /\ ret' = None
                /\ gs' = [gs EXCEPT !.pc = "loop", !.i = @ + 1,
                                    !.late = IF gs.closed THEN @ \cup {"append"}
                                             ELSE @]
    /\ UNCHANGED files
    /\ UNCHANGED bleVars

\* after the loop: pedometer.save_file("walking_{}hz.txt".format(frequency))
gs_save ==
    /\ gs.pc = "save" \/ (gs.pc = "loop" /\ gs.i = LoopCount)
    /\ files' = [files EXCEPT
                   ![SamplesFile] =
                      TextFile(SaveLines(TimeBuf(1), DataBuf(1), DataKind(1), 1))]
    /\ exc' = IF Len(DataBuf(1)) < Len(TimeBuf(1)) THEN "IndexError" ELSE NoExc
    /\ call' = [op |-> "save_file", i |-> 1, arg |-> SamplesFile]
    /\ stdout' = NoOutput
    /\ ret' = None
    /\ gs' = [gs EXCEPT !.pc = IF exc' = NoExc THEN "returned" ELSE "raised"]
    /\ UNCHANGED <<cls, ped>>
    /\ UNCHANGED bleVars

(***************************************************************************)
(* Specifications.                                                         *)
(***************************************************************************)
vars == <<cls, ped, files, stdout, exc, ret, call,
          ser, rx, mac, stack, rv, done, emitted, obs, gs>>

PedStart ==
    /\ cls = [time_buffer |-> <<>>, data_buffer |-> <<>>]
    /\ stdout = NoOutput
    /\ exc = NoExc
    /\ ret = None
    /\ call = [op |-> "construct", i |-> 2, arg |-> ped[2].maxlen]
    /\ gs = NotCalled

\* BLE.__init__ (do_config off): the port is open, no address is stored
BLEStart ==
    /\ ser = [open |-> TRUE, fault |-> FALSE]
    /\ rx = <<>>
    /\ mac = None
    /\ stack = <<>>
    /\ rv = None
    /\ done = Idle
    /\ emitted = [count |-> 0, confirm |-> FALSE]
    /\ obs = NewObs("none", 0)

PedInit ==
    /\ ped \in [Instances -> {NewPedometer(m) : m \in 1..MaxCap}]
    /\ \E w \in InitWalking :
          files = [f \in FileNames |-> IF f = WalkingFile THEN w ELSE NoFile]
    /\ PedStart
    /\ BLEStart

\* one Pedometer through its whole interface
PedNext ==
    \/ reset(1)
    \/ \E msg \in Msgs : append(1, msg)
    \/ \E f \in FileNames : save_file(1, f)
    \/ \E f \in FileNames : load_file(1, f)
    \/ process(1)

SpecPed == PedInit /\ [][PedNext]_vars

\* two Pedometers, constructed separately, buffering samples
ShareNext ==
    \/ \E i \in Instances, m \in 1..MaxCap : construct(i, m)
    \/ \E i \in Instances : reset(i)
    \/ \E i \in Instances, msg \in Msgs : append(i, msg)

SpecShare == PedInit /\ [][ShareNext]_vars

LoadInit ==
    /\ ped \in [Instances -> {NewPedometer(m) : m \in 1..MaxCap}]
    /\ \E t \in LoadTexts : files = [f \in FileNames |-> TextFile(t)]
    /\ PedStart
    /\ BLEStart

\* one Pedometer loading, then buffering on top of what it loaded
LoadNext ==
    \/ \E f \in FileNames : load_file(1, f)
    \/ \E msg \in Msgs : append(1, msg)
    \/ reset(1)
    \/ \E f \in FileNames : save_file(1, f)

SpecLoad == LoadInit /\ [][LoadNext]_vars

BLEInit ==
    /\ ped = [i \in Instances |-> NewPedometer(MaxCap)]
    /\ files = [f \in FileNames |-> NoFile]
    /\ PedStart
    /\ BLEStart

\* one BLE object, its caller and the peripheral
BLENext ==
    \/ \E c \in ConnectChunks : emit(c)
    \/ fault
    \/ \E n \in 0..MaxTries, r \in Reopens : start_connect(PeripheralMac, n, r)
    \/ connect_loop
    \/ connect_response
    \/ read_line_read
    \/ read_lines_read
    \/ read_checked
    \/ \E r \in Reopens : check_loop(r)
    \/ check_connected
    \/ check_reread
    \/ \E eol \in EolArgs : start_read_line(eol)
    \/ start_read_lines
    \/ \E msg \in CheckMsgs, n \in 1..MaxTries : start_check_connection(msg, n)
    \/ close

SpecBLE == BLEInit /\ [][BLENext]_vars

\* get_samples is called with a connected port and a fresh Pedometer
MainInit ==
    /\ ped \in [Instances -> {NewPedometer(m) : m \in 1..MaxCap}]
    /\ files = [f \in {SamplesFile} |-> NoFile]
    /\ cls = [time_buffer |-> <<>>, data_buffer |-> <<>>]
    /\ stdout = NoOutput
    /\ exc = NoExc
    /\ ret = None
    /\ call = [op |-> "construct", i |-> 1, arg |-> ped[1].maxlen]
    /\ gs = [NotCalled EXCEPT !.pc = "first"]
    /\ BLEStart

MainNext ==
    \/ gs_first_read
    \/ gs_loop_read
    \/ gs_append
    \/ gs_save
    \/ gs.pc \in {"first", "loop"} /\ fault

SpecMain == MainInit /\ [][MainNext]_vars

\* a caller that connects once and then reads, as main.py does
ReadNext ==
    \/ \E c \in ReadChunks : emit(c)
    \/ fault
    \/ mac = None /\ start_connect(PeripheralMac, MaxTries, FALSE)
    \/ connect_loop
    \/ connect_response
    \/ read_line_read
    \/ read_lines_read
    \/ read_checked
    \/ \E r \in Reopens : check_loop(r)
    \/ check_connected
    \/ check_reread
    \/ \E eol \in EolArgs : start_read_line(eol)
    \/ start_read_lines

SpecRead == BLEInit /\ [][ReadNext]_vars

(***************************************************************************)
(* Properties of the sample buffer (checked under SpecPed).                *)
(***************************************************************************)

\* C1: a malformed message (anything but two comma-separated integer
\* fields) leaves both the timestamp and the value sequence as they were,
\* and append prints a diagnostic.
C1_MalformedLeavesBufferUnchanged ==
    [][\A i \in Instances :
         (call'.op = "append" /\ call'.i = i /\ call'.arg \in MalformedMsgs)
         => /\ TimeBuf(i)' = TimeBuf(i)
            /\ DataBuf(i)' = DataBuf(i)
            /\ stdout' # NoOutput]_vars

\* C2: a well-formed message makes both sequences one longer while they are
\* below capacity; at capacity append leaves the lengths alone and prints
\* the full-buffer notice; it never raises.
C2_ValidAppendGrowsToCapacity ==
    [][\A i \in Instances :
         (call'.op = "append" /\ call'.i = i /\ call'.arg \in ValidMsgs)
         => /\ exc' = NoExc
            /\ (Len(TimeBuf(i)) < ped[i].maxlen /\ Len(DataBuf(i)) < ped[i].maxlen)
               => /\ Len(TimeBuf(i)') = Len(TimeBuf(i)) + 1
                  /\ Len(DataBuf(i)') = Len(DataBuf(i)) + 1
                  /\ stdout' = NoOutput
            /\ (Len(TimeBuf(i)) = ped[i].maxlen \/ Len(DataBuf(i)) = ped[i].maxlen)
               => /\ Len(TimeBuf(i)') = Len(TimeBuf(i))
                  /\ Len(DataBuf(i)') = Len(DataBuf(i))
                  /\ stdout' = BufferFull]_vars

\* a well-formed message was refused by a buffer that valid samples filled
C2_Witness ==
    /\ call.op = "append"
    /\ call.arg \in ValidMsgs
    /\ stdout = BufferFull
    /\ ped[1].maxlen = MaxCap
    /\ TimeBuf(1) = [k \in 1..MaxCap |-> -3]
    /\ DataBuf(1) = [k \in 1..MaxCap |-> 10]

\* C3: save_file(path) followed by load_file(path), on a buffer of valid
\* samples, gives back the same timestamps and values in the same order.
C3_SaveLoadRoundTrip ==
    [][\A i \in Instances :
         ( /\ call.op = "save_file" /\ call.i = i
           /\ DataKind(i) = "list"
           /\ Len(TimeBuf(i)) = Len(DataBuf(i))
           /\ call'.op = "load_file" /\ call'.i = i /\ call'.arg = call.arg )
         => /\ exc' = NoExc
            /\ TimeBuf(i)' = TimeBuf(i)
            /\ DataBuf(i)' = DataBuf(i)
            /\ DataKind(i)' = "list"]_vars

\* two appended samples came back from the file save_file wrote
C3_Witness ==
    /\ call.op = "load_file"
    /\ exc = NoExc
    /\ TimeBuf(1) = <<-3, -3>>
    /\ DataBuf(1) = <<10, 10>>
    /\ files[call.arg].text = SaveLines(<<-3, -3>>, <<10, 10>>, "list", 1)

\* C11: load_file raises on every file that has a line which is not
\* exactly two integer fields (too few, too many, blank, not an integer).
C11_MalformedFileRejected ==
    ( /\ call.op = "load_file"
      /\ files[call.arg].exists
      /\ ~AllLinesWellFormed(files[call.arg].text) )
    => exc # NoExc

(***************************************************************************)
(* Properties of the BLE object (checked under SpecBLE).  obs counts the   *)
(* framed messages read_line assembled since the caller's call began.     *)
(***************************************************************************)

\* C4: when the k-th framed message read during a connect(address,
\* max_attempts) call, k <= max_attempts, is the first to contain '#', the
\* call returns without error after exactly k read cycles (the port staying
\* usable).
C4_ReturnsAtFirstConfirmation ==
    ( /\ obs.fn = "connect"
      /\ done.status \in {"returned", "raised"}
      /\ ~IOFails(ser)
      /\ obs.firstHash \in 1..obs.max_tries )
    => /\ done.status = "returned"
       /\ obs.reads = obs.firstHash

\* C5: when the peripheral never sends '#', connect(address, max_attempts)
\* raises the connection-failed error after exactly max_attempts read
\* cycles (the port staying usable).
C5_FailsAfterMaxAttempts ==
    ( /\ obs.fn = "connect"
      /\ done.status \in {"returned", "raised"}
      /\ ~IOFails(ser)
      /\ ~emitted.confirm )
    => /\ done.status = "raised"
       /\ done.exc = ConnectionFailed
       /\ obs.reads = obs.max_tries

\* C6: check_connection(message, max_attempts) raises the reconnect-failed
\* error only when the message it holds last, the backlog re-read after the
\* last round, still contains "OK+LOST".
C6_FailsOnlyIfMarkerPersists ==
    ( /\ obs.fn = "check_connection"
      /\ done.status = "raised"
      /\ done.exc = ReconnectFailed )
    => Contains(done.detail, LostMarker)

\* C12 as stated: a read_line call that stopped on the delimiter returns
\* exactly the characters that were waiting before the first delimiter, and
\* every character after that delimiter is still waiting.
C12_DelimitedLineOnly ==
    ( /\ obs.fn = "read_line"
      /\ done.status \in {"returned", "raised"}
      /\ obs.stop.kind = "eol"
      /\ mac = PeripheralMac
      /\ ~IOFails(ser) )
    => \E p \in 1..Len(obs.stop.had) :
          LET had  == obs.stop.had
              rest == SubSeq(had, p + 1, Len(had))
          IN  /\ <<had[p]>> = obs.stop.eol
              /\ \A j \in 1..(p - 1) : <<had[j]>> # obs.stop.eol
              /\ done.status = "returned"
              /\ done.detail = SubSeq(had, 1, p - 1)
              /\ Len(rx) >= Len(rest)
              /\ SubSeq(rx, 1, Len(rest)) = rest

\* C12, amended: the same, for a line that does not contain "OK+LOST"
\* (a line that does sends read_line into check_connection, whose connect
\* flushes the waiting characters and may raise).
C12_DelimitedLineWithoutLost ==
    ( /\ obs.fn = "read_line"
      /\ done.status \in {"returned", "raised"}
      /\ obs.stop.kind = "eol"
      /\ ~Contains(obs.stop.line, LostMarker) )
    => \E p \in 1..Len(obs.stop.had) :
          LET had  == obs.stop.had
              rest == SubSeq(had, p + 1, Len(had))
          IN  /\ <<had[p]>> = obs.stop.eol
              /\ \A j \in 1..(p - 1) : <<had[j]>> # obs.stop.eol
              /\ done.status = "returned"
              /\ done.detail = SubSeq(had, 1, p - 1)
              /\ Len(rx) >= Len(rest)
              /\ SubSeq(rx, 1, Len(rest)) = rest

\* read_line(";") returned "5,7" and left the next sample waiting
C12_Witness ==
    /\ obs.fn = "read_line"
    /\ done.status = "returned"
    /\ obs.stop.kind = "eol"
    /\ obs.stop.had = SampleChunk \o SampleChunk
    /\ done.detail = <<"5", ",", "7">>
    /\ rx = SampleChunk

\* C13: read_line called with a delimiter that is not exactly one character
\* raises at once: no character has been read, no message assembled and no
\* reconnection started.
C13_BadDelimiterFailsFast ==
    (obs.fn = "read_line" /\ Len(obs.stop.eol) # 1)
    => /\ done.status = "raised"
       /\ done.exc = DelimiterError
       /\ stack = <<>>
       /\ obs.reads = 0
       /\ obs.stop.kind = "none"
       /\ obs.connects = 0

\* read_line(";;") raised while a sample was waiting
C13_Witness ==
    /\ obs.fn = "read_line"
    /\ obs.stop.eol = <<";", ";">>
    /\ done.status = "raised"
    /\ done.exc = DelimiterError
    /\ rx = SampleChunk

\* C14: connect returns successfully only when the link-established marker
\* was seen in one of its responses, the one with '#' or an earlier one.
C14_ConfirmedOnlyFromLinkUp ==
    [][( /\ Len(stack) = 1
         /\ Running_("connect", "loop")
         /\ done'.status = "returned" )
       => Top.connected]_vars

\* C15: during one check_connection(message, max_attempts) call connect is
\* invoked at most max_attempts times in all, nested invocations included.
C15_ConnectInvokedAtMostMaxAttempts ==
    obs.fn = "check_connection" => obs.connects <= obs.max_tries

\* C16: in a turn of the loop of connect that leaves it unconfirmed, the one
\* command written is "AT+CON<address>" while the link marker is missing
\* and "AT+NAME?" once it has been seen; in the turn that sees '#' nothing is
\* written.
C16_OneCommandByWhatIsMissing ==
    \A k \in 1..Len(stack) :
       LET f == stack[k]
       IN  (f.fn = "connect" /\ f.pc = "loop" /\ f.tries > 0)
           => f.wrote = IF f.confirmed THEN NoCommand
                        ELSE IF f.connected THEN NameCommand
                        ELSE ConnectCommand(mac)

\* C19: a message with "OK+LOST" that read_line or read_lines assembled is
\* not handed back at once; check_connection calls connect with the stored
\* address, which stays the stored address; and check_connection comes back
\* to the read only after at least one round of connect and re-read.
C19_LostLinkReconnectsBeforeReturn ==
    [][ /\ ( /\ Running_("read_line", "read") \/ Running_("read_lines", "read")
             /\ stack' = Pop
             /\ done'.status # "raised" )
           => ~Contains(IF Len(stack) = 1 THEN done'.detail ELSE rv', LostMarker)
        /\ ( /\ Running_("check_connection", "loop")
             /\ Len(stack') = Len(stack) + 1 )
           => /\ stack'[Len(stack')].fn = "connect"
              /\ mac' = mac
        /\ ( /\ Running_("check_connection", "loop")
             /\ Len(stack) >= 2
             /\ stack' = Pop
             /\ Contains(stack[Len(stack) - 1].msg, LostMarker) )
           => Top.tries >= 1 ]_vars

\* read_line is about to return a message with "OK+LOST" after a reconnect
\* to the stored address
C19_Witness ==
    /\ Len(stack) = 1
    /\ Running_("read_line", "checked")
    /\ Contains(Top.msg, LostMarker)
    /\ obs.connects = 1
    /\ mac = PeripheralMac

\* C20: a response containing "CONNF" or "CONNE" does not set the connected
\* state of connect, and the connect command is written again.
C20_FailedLinkNotConnected ==
    [][( /\ Running_("connect", "await")
         /\ ~Top.connected
         /\ \E m \in FailMarkers : Contains(rv, m)
         /\ Len(stack') = Len(stack)
         /\ stack'[Len(stack')].pc = "loop" )
       => /\ ~stack'[Len(stack')].connected
          /\ stack'[Len(stack')].wrote = ConnectCommand(mac)]_vars

\* C21: in every connect call the first thing written to the port is "AT",
\* the flush of the buffers comes next, and only then does the call read a
\* message or write "AT+CON<address>" or "AT+NAME?".
C21_ResetThenFlushFirst ==
    \A k \in 1..Len(stack) :
       stack[k].fn = "connect"
       => /\ Len(stack[k].ops) >= 2
          /\ stack[k].ops[1] = WriteOp(ResetCommand)
          /\ stack[k].ops[2] = FlushOp
          /\ stack[k].tries > 0 => stack[k].ops[3] = ReadOp

\* a connect call that has read a response and written "AT+NAME?"
C21_Witness ==
    /\ Running_("connect", "loop")
    /\ Top.tries = 1
    /\ Top.wrote = NameCommand
    /\ SubSeq(Top.ops, 1, 3) = <<WriteOp(ResetCommand), FlushOp, ReadOp>>

\* C23: the characters a read_line call took from the port are, in order,
\* the message it returns, followed by the delimiter when it stopped on one;
\* on a timeout the last character read is part of the message.
C23_NoCharacterLost ==
    (obs.fn = "read_line" /\ done.status = "returned")
    => LET had      == obs.stop.had
           consumed == SubSeq(had, 1, Len(had) - Len(obs.stop.rest))
       IN  IF obs.stop.kind = "eol"
           THEN consumed = done.detail \o obs.stop.eol
           ELSE consumed = done.detail

\* C7: close() never raises, and the port is closed when it has returned,
\* whatever the state of the port and of the device.
C7_CloseNeverRaises ==
    (obs.fn = "close" /\ done.status # "running")
    => /\ done.status = "returned"
       /\ ~ser.open

\* C8: after reset() the timestamp and value sequences are empty and the
\* step count is 0.
C8_ResetClearsBufferAndSteps ==
    call.op = "reset"
    => /\ TimeBuf(call.i) = <<>>
       /\ DataBuf(call.i) = <<>>
       /\ ped[call.i].steps = 0

\* C9: process() returns the number of peaks of this run that lie strictly
\* between lower_bound and upper_bound, whatever was counted before.
C9_ReturnsAcceptedPeaksOfRun ==
    (call.op = "process" /\ exc = NoExc)
    => ret = Len(SelectSeq(ped[call.i].peaks, Accepted))

\* C17: counting steps leaves the stored samples alone: when process() has
\* returned, the timestamps and values are still the ones load_file read
\* from the walking file.
C17_CountingLeavesSamples ==
    (call.op = "process" /\ exc = NoExc)
    => LET loaded == LoadLines(files[WalkingFile].text, <<>>, <<>>, 0)
       IN  /\ TimeBuf(call.i) = loaded.time
           /\ DataKind(call.i) = "list"
           /\ DataBuf(call.i) = loaded.data

\* C18: once get_samples has called close(), it starts no further read_line
\* and appends no further message.
C18_NothingAfterClose == gs.late = {}

\* C22: whatever append, reset, save_file and load_file calls were made on
\* a Pedometer, failed loads included, it never holds more samples
\* (timestamp and value pairs) than its capacity _maxlen.
C22_NeverOverCapacity ==
    Len(TimeBuf(1)) <= ped[1].maxlen \/ Len(DataBuf(1)) <= ped[1].maxlen

\* C10: appending to one Pedometer leaves every other Pedometer's
\* timestamps, values and step count as they were.
C10_AppendLeavesOtherInstances ==
    [][\A i \in Instances, j \in Instances :
         (i # j /\ call'.op = "append" /\ call'.i = i)
         => /\ TimeBuf(j)' = TimeBuf(j)
            /\ DataBuf(j)' = DataBuf(j)
            /\ ped'[j].steps = ped[j].steps]_vars

====
